---- MODULE Spec2Model ----
(***************************************************************************)
(* The todo application of 2-layers/app.py: the data layer (TodoDatabase), *)
(* the service layer (TodoService, the result classes, the permission      *)
(* policy, the schema and the link configuration) and the view methods of  *)
(* TodoResource that call it.                                              *)
(***************************************************************************)
EXTENDS Integers, Sequences, FiniteSets, TLC

\* ------------------------------------------------------------ bounds
MaxId == 2
MaxPage == 3
MaxSize == 2
MaxCreatesPerScan == 1

\* ------------------------------------------------------------ values
\* Python's None; the user ids and item ids of the model are 1, 2, ...
None == 0
UserIds == {1, 2}
UserHints == UserIds \cup {None}
ItemIds == 1..MaxId
Titles == {"Test"}
Priorities == {1}
Pages == 1..MaxPage
Sizes == 1..MaxSize
SITE_API_URL == "http://127.0.0.1:5000"

\* The JSON bodies a client can post: a mapping with any subset of the keys
\* id, title and priority.
RawData ==
    {[id |-> i, title |-> t, priority |-> p] :
        i \in ItemIds, t \in Titles, p \in Priorities}
    \cup {[id |-> i, title |-> t] : i \in ItemIds, t \in Titles}
    \cup {[id |-> i, priority |-> p] : i \in ItemIds, p \in Priorities}
    \cup {[title |-> t, priority |-> p] : t \in Titles, p \in Priorities}
    \cup {[id |-> i] : i \in ItemIds}
    \cup {[title |-> t] : t \in Titles}

Min(a, b) == IF a < b THEN a ELSE b

\* ------------------------------------------------------------ flask_principal
UserNeed(user_id) == <<"id", user_id>>
RoleNeed(role) == <<"role", role>>

AnonymousIdentity == [id |-> None, provides |-> {}]

\* Permission.allows with no excludes: no needs, or a need the identity provides.
Allows(needs, identity) ==
    (needs = {}) \/ (needs \cap identity.provides # {})

\* ------------------------------------------------------------ data layer
\* As TodoItem, taking the owner from the item id.
TodoItemOwnerFromId(id_, title, priority, user_id) ==
    [id |-> id_, title |-> title, priority |-> priority, user_id |-> id_]

TodoItem(id_, title, priority, user_id) ==
    [id |-> id_, title |-> title, priority |-> priority, user_id |-> user_id]

\* The dict TodoDatabase.db as the sequence of its entries in insertion order.
HasKey(store, key) == \E i \in 1..Len(store) : store[i].key = key

KeyIndex(store, key) == CHOOSE i \in 1..Len(store) : store[i].key = key

Values(store) == [i \in 1..Len(store) |-> store[i].value]

\* As TodoDatabaseAdd, keyed by the owner: cls.db[item.user_id] = item.
TodoDatabaseAddByUser(store, item) ==
    IF HasKey(store, item.user_id)
    THEN [store EXCEPT ![KeyIndex(store, item.user_id)].value = item]
    ELSE Append(store, [key |-> item.user_id, value |-> item])

\* cls.db[item.id] = item: a new key goes last, a present key keeps its place.
TodoDatabaseAdd(store, item) ==
    IF HasKey(store, item.id)
    THEN [store EXCEPT ![KeyIndex(store, item.id)].value = item]
    ELSE Append(store, [key |-> item.id, value |-> item])

TodoDatabaseGet(store, id_) ==
    IF ~HasKey(store, id_)
    THEN [error |-> "NoResultError"]
    ELSE [error |-> "none", item |-> store[KeyIndex(store, id_)].value]

\* As GetAllMatch, with the test on the owner left out.
GetAllMatchAny(item, user_id) == TRUE

\* The test of get_all's loop.
GetAllMatch(item, user_id) == item.user_id = user_id

RECURSIVE FilterItems(_, _)
FilterItems(items, user_id) ==
    IF items = <<>> THEN <<>>
    ELSE IF GetAllMatch(Head(items), user_id)
         THEN <<Head(items)>> \o FilterItems(Tail(items), user_id)
         ELSE FilterItems(Tail(items), user_id)

\* list(TodoDatabase.get_all(user_id)) with nothing running in between.
TodoDatabaseGetAll(store, user_id) == FilterItems(Values(store), user_id)

\* ------------------------------------------------------------ permissions
\* As OwnerNeeds, with the item's id for its owner.
OwnerNeedsById(item) == <<UserNeed(item.id)>>

OwnerNeeds(item) == <<UserNeed(item.user_id)>>

AuthenticatedUserNeeds(item) == <<RoleNeed("authenticated_user")>>

GeneratorNeeds(g, item) ==
    IF g = "Owner" THEN OwnerNeeds(item) ELSE AuthenticatedUserNeeds(item)

\* As can_search, open to authenticated users only.
can_search_authenticated == <<"AuthenticatedUser">>

can_create == <<"AuthenticatedUser">>
can_read == <<"Owner">>
can_search == <<>>

Generators(action) ==
    CASE action = "create" -> can_create
      [] action = "read" -> can_read
      [] action = "search" -> can_search

\* TodoPermissionPolicy.__init__: the needs of every generator of the action.
TodoPermissionPolicy(action, item) ==
    LET gens == Generators(action)
    IN UNION {{GeneratorNeeds(gens[i], item)[j] :
                  j \in 1..Len(GeneratorNeeds(gens[i], item))} :
              i \in 1..Len(gens)}

\* Service.require_permission: TRUE when it returns, FALSE when it raises
\* PermissionDenied.
RequirePermission(identity, action, item) ==
    Allows(TodoPermissionPolicy(action, item), identity)

\* ------------------------------------------------------------ schema
\* TodoSchema().load(data): id and title are required, priority defaults to 3.
TodoSchemaLoad(data) ==
    IF "id" \notin DOMAIN data \/ "title" \notin DOMAIN data
    THEN [valid |-> FALSE]
    ELSE [valid |-> TRUE,
          obj |-> [id |-> data.id,
                   title |-> data.title,
                   priority |-> IF "priority" \in DOMAIN data
                                THEN data.priority ELSE 3]]

\* ------------------------------------------------------------ pagination
Pagination(size, page, total) == [size |-> size, page |-> page, total |-> total]

FromIdx(p) == (p.page - 1) * p.size
ToIdx(p) == Min(FromIdx(p) + p.size, p.total)
HasPrev(p) == p.page > 1
HasNext(p) == ToIdx(p) < p.total
PrevPage(p) == Pagination(p.size, p.page - 1, p.total)
NextPage(p) == Pagination(p.size, p.page + 1, p.total)

\* ------------------------------------------------------------ links
\* A link of links_item: "{+api}/todos/{id}".
ItemUri(vars) == <<vars.api, "todos", vars.id>>

\* A link of links_search: "{+api}/todos{?args*}".
SearchUri(vars) == <<vars.api, "todos", vars.args.page, vars.args.size>>

links_item ==
    <<[key |-> "self", uri |-> "item", when |-> "always", vars |-> "id"]>>

\* As links_search, with the guard of the prev link left out.
links_search_unguarded ==
    <<[key |-> "prev", uri |-> "search", when |-> "always", vars |-> "prev_page"],
      [key |-> "self", uri |-> "search", when |-> "always", vars |-> "none"],
      [key |-> "next", uri |-> "search", when |-> "has_next", vars |-> "next_page"]>>

links_search ==
    <<[key |-> "prev", uri |-> "search", when |-> "has_prev", vars |-> "prev_page"],
      [key |-> "self", uri |-> "search", when |-> "always", vars |-> "none"],
      [key |-> "next", uri |-> "search", when |-> "has_next", vars |-> "next_page"]>>

\* Link.should_render: the link's when function, if it has one.
ShouldRender(link, obj, ctx) ==
    CASE link.when = "has_prev" -> HasPrev(obj)
      [] link.when = "has_next" -> HasNext(obj)
      [] OTHER -> TRUE

\* The link's vars function applied to the variables of one expansion.
BindVars(link, obj, vars) ==
    CASE link.vars = "id" -> [api |-> vars.api, id |-> obj.id]
      [] link.vars = "prev_page" ->
            [vars EXCEPT !.args = [@ EXCEPT !.page = PrevPage(obj).page]]
      [] link.vars = "next_page" ->
            [vars EXCEPT !.args = [@ EXCEPT !.page = NextPage(obj).page]]
      [] OTHER -> vars

\* Link.expand: the variables are a copy of the context, so the context the
\* next link is expanded with is the one this link was given.
LinkExpand(link, obj, ctx) ==
    LET vars == BindVars(link, obj, ctx)
    IN [uri |-> IF link.uri = "item" THEN ItemUri(vars) ELSE SearchUri(vars),
        ctx |-> ctx]

\* LinksTemplate.expand: the links that render, in the order of the template.
RECURSIVE ExpandFrom(_, _, _, _, _)
ExpandFrom(links, i, obj, ctx, acc) ==
    IF i > Len(links) THEN acc
    ELSE IF ShouldRender(links[i], obj, ctx)
         THEN LET r == LinkExpand(links[i], obj, ctx)
              IN ExpandFrom(links, i + 1, obj, r.ctx,
                            acc @@ (links[i].key :> r.uri))
         ELSE ExpandFrom(links, i + 1, obj, ctx, acc)

LinksTemplateExpand(links, context, obj) ==
    ExpandFrom(links, 1, obj, [api |-> SITE_API_URL] @@ context, <<>>)

\* ------------------------------------------------------------ results
TodoItemResultToDict(item, identity) ==
    [id |-> item.id,
     title |-> item.title,
     priority |-> item.priority,
     is_owner |-> (identity.id = item.user_id),
     links |-> LinksTemplateExpand(links_item, <<>>, item)]

\* Python's items[lo:hi] for lo, hi >= 0.
PySlice(items, lo, hi) ==
    LET l == Min(lo, Len(items))
        h == Min(hi, Len(items))
    IN IF l >= h THEN <<>> ELSE SubSeq(items, l + 1, h)

ListWindow(item_list, pagination) ==
    PySlice(item_list, FromIdx(pagination), ToIdx(pagination))

TodoListResultToDict(item_list, identity, params) ==
    LET total == Len(item_list)
        pagination == Pagination(params.size, params.page, total)
        window == ListWindow(item_list, pagination)
    IN [hits |-> [hits |-> [k \in 1..Len(window) |->
                               TodoItemResultToDict(window[k], identity)],
                  total |-> total],
        links |-> LinksTemplateExpand(links_search, [args |-> params], pagination)]

\* ------------------------------------------------------------ service
\* Each service method gives the exception it raises ("none" when it returns),
\* the store it leaves and, when it returns, the to_dict() of its result.
\* As ServiceCreate, loading the data before it checks the permission.
ServiceCreateValidateFirst(store, identity, data) ==
    LET loaded == TodoSchemaLoad(data)
    IN IF ~loaded.valid
       THEN [error |-> "ValidationError", store |-> store]
       ELSE IF ~RequirePermission(identity, "create", None)
            THEN [error |-> "PermissionDenied", store |-> store]
            ELSE LET item == TodoItem(loaded.obj.id, loaded.obj.title,
                                      loaded.obj.priority, identity.id)
                 IN [error |-> "none",
                     store |-> TodoDatabaseAdd(store, item),
                     body |-> TodoItemResultToDict(item, identity)]

ServiceCreate(store, identity, data) ==
    IF ~RequirePermission(identity, "create", None)
    THEN [error |-> "PermissionDenied", store |-> store]
    ELSE LET loaded == TodoSchemaLoad(data)
         IN IF ~loaded.valid
            THEN [error |-> "ValidationError", store |-> store]
            ELSE LET item == TodoItem(loaded.obj.id, loaded.obj.title,
                                      loaded.obj.priority, identity.id)
                 IN [error |-> "none",
                     store |-> TodoDatabaseAdd(store, item),
                     body |-> TodoItemResultToDict(item, identity)]

ServiceRead(store, identity, id_) ==
    LET got == TodoDatabaseGet(store, id_)
    IN IF got.error # "none"
       THEN [error |-> got.error, store |-> store]
       ELSE IF ~RequirePermission(identity, "read", got.item)
            THEN [error |-> "PermissionDenied", store |-> store]
            ELSE [error |-> "none", store |-> store,
                  body |-> TodoItemResultToDict(got.item, identity)]

ServiceSearch(store, identity, page, size) ==
    IF ~RequirePermission(identity, "search", None)
    THEN [error |-> "PermissionDenied", store |-> store]
    ELSE [error |-> "none", store |-> store,
          body |-> TodoListResultToDict(TodoDatabaseGetAll(store, identity.id),
                                        identity, [page |-> page, size |-> size])]

\* ------------------------------------------------------------ resource
MakeIdentity(user_id) ==
    IF user_id # None
    THEN [id |-> user_id,
          provides |-> {UserNeed(user_id), RoleNeed("authenticated_user")}]
    ELSE AnonymousIdentity

\* TodoResource.error_handlers; an exception with no handler is a 500.
ErrorCode(error) ==
    CASE error = "NoResultError" -> 404
      [] error = "ValidationError" -> 400
      [] error = "PermissionDenied" -> 403
      [] OTHER -> 500

Response(op, identity, arg, out, ok_code) ==
    [op |-> op, identity |-> identity, arg |-> arg, error |-> out.error,
     code |-> IF out.error = "none" THEN ok_code ELSE ErrorCode(out.error),
     body |-> IF out.error = "none" THEN out.body ELSE <<>>]

\* ------------------------------------------------------------ state
VARIABLES
    db,         \* TodoDatabase.db
    resp,       \* the last request served and its response
    scan,       \* a search whose enumeration of db.values() is under way
    lastCreate  \* per user, the item stored by the create that was the
                \* user's latest request, if it succeeded

vars == <<db, resp, scan, lastCreate>>

Init ==
    /\ db = <<>>
    /\ resp = [op |-> "none"]
    /\ scan = [pc |-> "idle"]
    /\ lastCreate = [u \in UserIds |-> <<>>]

\* POST /todos?user=..
CreateView(user, data) ==
    LET identity == MakeIdentity(user)
        out == ServiceCreate(db, identity, data)
    IN /\ db' = out.store
       /\ resp' = Response("create", identity, data, out, 201)

\* GET /todos/<item_id>?user=..
ReadView(user, item_id) ==
    LET identity == MakeIdentity(user)
        out == ServiceRead(db, identity, item_id)
    IN /\ db' = out.store
       /\ resp' = Response("read", identity, item_id, out, 200)

\* GET /todos?user=..&page=..&size=..
SearchView(user, page, size) ==
    LET identity == MakeIdentity(user)
        out == ServiceSearch(db, identity, page, size)
    IN /\ db' = out.store
       /\ resp' = Response("search", identity, [page |-> page, size |-> size],
                           out, 200)

\* ---- requests served one after the other
Create(user, data) == CreateView(user, data) /\ UNCHANGED <<scan, lastCreate>>

Read(user, item_id) == ReadView(user, item_id) /\ UNCHANGED <<scan, lastCreate>>

Search(user, page, size) ==
    SearchView(user, page, size) /\ UNCHANGED <<scan, lastCreate>>

Next ==
    \/ \E user \in UserHints, data \in RawData : Create(user, data)
    \/ \E user \in UserHints, item_id \in ItemIds : Read(user, item_id)
    \/ \E user \in UserHints, page \in Pages, size \in Sizes :
          Search(user, page, size)

Spec == Init /\ [][Next]_vars

\* ---- the same requests, each user's latest create remembered
Remember(user, item) ==
    IF user \in UserIds THEN [lastCreate EXCEPT ![user] = item] ELSE lastCreate

CallerCreate(user, data) ==
    /\ CreateView(user, data)
    /\ lastCreate' =
          Remember(user, IF resp'.error = "none"
                         THEN <<db'[KeyIndex(db', data.id)].value>> ELSE <<>>)
    /\ UNCHANGED scan

CallerRead(user, item_id) ==
    /\ ReadView(user, item_id)
    /\ lastCreate' = Remember(user, <<>>)
    /\ UNCHANGED scan

CallerSearch(user, page, size) ==
    /\ SearchView(user, page, size)
    /\ lastCreate' = Remember(user, <<>>)
    /\ UNCHANGED scan

NextCallers ==
    \/ \E user \in UserHints, data \in RawData : CallerCreate(user, data)
    \/ \E user \in UserHints, item_id \in ItemIds : CallerRead(user, item_id)
    \/ \E user \in UserHints, page \in Pages, size \in Sizes :
          CallerSearch(user, page, size)

SpecCallers == Init /\ [][NextCallers]_vars

\* ---- requests served by threads: a create or a read touches the dict once,
\* a search touches it once per step of list(get_all(..)), and the other
\* threads run between the steps.
Scanning == scan.pc = "iter"

\* The stores that existed while the enumeration under way ran.
Seen(store) == IF Scanning THEN [scan EXCEPT !.seen = @ \cup {store}] ELSE scan

ThreadCreate(user, data) ==
    /\ Scanning => Cardinality(scan.seen) <= MaxCreatesPerScan
    /\ CreateView(user, data)
    /\ scan' = Seen(db')
    /\ UNCHANGED lastCreate

ThreadRead(user, item_id) ==
    /\ ReadView(user, item_id)
    /\ UNCHANGED <<scan, lastCreate>>

\* search() up to the first next() of the generator: the permission check,
\* then the iterator over cls.db.values(), which notes the size of the dict.
SearchBegin(user, page, size) ==
    LET identity == MakeIdentity(user)
    IN /\ ~Scanning
       /\ RequirePermission(identity, "search", None)
       /\ scan' = [pc |-> "iter", identity |-> identity,
                   params |-> [page |-> page, size |-> size],
                   used |-> Len(db), pos |-> 0, items |-> <<>>, seen |-> {db}]
       /\ UNCHANGED <<db, resp, lastCreate>>

\* The list is that of a store that existed while the enumeration ran.
Consistent(items, user_id, stores) ==
    \E store \in stores : items = TodoDatabaseGetAll(store, user_id)

\* The search is over: its response, and how its enumeration went.
SearchEnd(out) ==
    /\ scan' = [pc |-> "done", error |-> out.error,
                consistent |-> Consistent(scan.items, scan.identity.id, scan.seen)]
    /\ resp' = Response("search", scan.identity, scan.params, out, 200)

\* One next() of the iterator: RuntimeError when the dict changed size, the
\* end of the list when no entry is left, else the entry at pos, which
\* get_all yields when its owner matches.
SearchNext ==
    /\ Scanning
    /\ UNCHANGED <<db, lastCreate>>
    /\ IF Len(db) # scan.used
       THEN SearchEnd([error |-> "RuntimeError"])
       ELSE IF scan.pos >= Len(db)
       THEN SearchEnd([error |-> "none",
                       body |-> TodoListResultToDict(scan.items, scan.identity,
                                                     scan.params)])
       ELSE LET item == db[scan.pos + 1].value
            IN /\ scan' = [scan EXCEPT
                              !.pos = @ + 1,
                              !.items = IF GetAllMatch(item, scan.identity.id)
                                        THEN Append(@, item) ELSE @]
               /\ UNCHANGED resp

NextThreads ==
    \/ \E user \in UserHints, data \in RawData : ThreadCreate(user, data)
    \/ \E user \in UserHints, item_id \in ItemIds : ThreadRead(user, item_id)
    \/ \E user \in UserHints, page \in Pages, size \in Sizes :
          SearchBegin(user, page, size)
    \/ SearchNext

SpecThreads == Init /\ [][NextThreads]_vars

\* ------------------------------------------------------------ properties
\* What the properties say of a request: the needs its action requires, the
\* claims that satisfy them, and the stored item a request names.
RequiredNeeds(action, item) ==
    CASE action = "create" -> {RoleNeed("authenticated_user")}
      [] action = "read" -> {UserNeed(item.user_id)}
      [] action = "search" -> {}

Granted(needs, claims) == needs = {} \/ \E n \in needs : n \in claims

StoredUnder(id_) == {db[i].value : i \in {j \in 1..Len(db) : db[j].key = id_}}

TheStored(id_) == CHOOSE item \in StoredUnder(id_) : TRUE

Denied == resp.error = "PermissionDenied"

ValidData(data) == "id" \in DOMAIN data /\ "title" \in DOMAIN data

\* C1: each action is denied exactly when its required needs are not empty and
\* share no need with the identity's claims; search is open to everyone,
\* create to exactly the holders of RoleNeed("authenticated_user").
C1_PermissionCheck ==
    /\ resp.op = "create" =>
          /\ Denied <=> ~Granted(RequiredNeeds("create", None), resp.identity.provides)
          /\ ~Denied <=> RoleNeed("authenticated_user") \in resp.identity.provides
    /\ resp.op = "search" =>
          /\ Denied <=> ~Granted(RequiredNeeds("search", None), resp.identity.provides)
          /\ ~Denied
    /\ (resp.op = "read" /\ StoredUnder(resp.arg) # {}) =>
          (Denied <=> ~Granted(RequiredNeeds("read", TheStored(resp.arg)),
                               resp.identity.provides))

C1_Witness ==
    /\ resp.op = "search"
    /\ resp.identity = AnonymousIdentity
    /\ resp.error = "none"
    /\ db # <<>>

\* C2: a read is NotFound when nothing is stored under the id, else
\* PermissionDenied when the identity lacks UserNeed(owner), else the
\* representation of the stored item.
C2_ReadOutcome ==
    resp.op = "read" =>
        IF StoredUnder(resp.arg) = {}
        THEN resp.error = "NoResultError" /\ resp.code = 404
        ELSE LET item == TheStored(resp.arg)
             IN IF UserNeed(item.user_id) \notin resp.identity.provides
                THEN resp.error = "PermissionDenied" /\ resp.code = 403
                ELSE /\ resp.error = "none"
                     /\ resp.body.id = item.id
                     /\ resp.body.title = item.title
                     /\ resp.body.priority = item.priority
                     /\ resp.body.is_owner
                     /\ resp.body.links = [self |-> <<SITE_API_URL, "todos", item.id>>]

C2_Witness ==
    /\ resp.op = "read"
    /\ StoredUnder(resp.arg) # {}
    /\ resp.identity.id \in UserIds
    /\ resp.identity.id # TheStored(resp.arg).user_id
    /\ resp.error = "PermissionDenied"

\* C3 as stated: a create with data that fails the schema ends in
\* ValidationError, whoever the identity.
C3_ValidationFirst ==
    (resp.op = "create" /\ ~ValidData(resp.arg)) => resp.error = "ValidationError"

\* C3, amended: create authorizes before it validates. An identity without
\* RoleNeed("authenticated_user") gets PermissionDenied whatever the data;
\* ValidationError is raised exactly for a permitted identity with data that
\* fails the schema.
C3_AuthorizationFirst ==
    resp.op = "create" =>
        LET permitted == RoleNeed("authenticated_user") \in resp.identity.provides
        IN /\ ~permitted => resp.error = "PermissionDenied"
           /\ resp.error = "ValidationError" <=> (permitted /\ ~ValidData(resp.arg))

C3_Witness ==
    /\ resp.op = "create"
    /\ resp.identity = AnonymousIdentity
    /\ ~ValidData(resp.arg)
    /\ resp.error = "PermissionDenied"

\* C4 as stated: the item stored under an id keeps its owner_id through every
\* operation.
C4_OwnerPermanent ==
    [][\A i \in 1..Len(db) :
          \E j \in 1..Len(db') :
             /\ db'[j].key = db[i].key
             /\ db'[j].value.user_id = db[i].value.user_id]_vars

\* C5: a create that succeeds leaves under data.id the item made of the data
\* (priority 3 when the data has none) and of the identity's id, and returns
\* its representation with is_owner true.
C5_CreateStores ==
    (resp.op = "create" /\ resp.error = "none") =>
        /\ StoredUnder(resp.arg.id) =
              {[id |-> resp.arg.id,
                title |-> resp.arg.title,
                priority |-> IF "priority" \in DOMAIN resp.arg
                             THEN resp.arg.priority ELSE 3,
                user_id |-> resp.identity.id]}
        /\ resp.code = 201
        /\ resp.body.id = resp.arg.id
        /\ resp.body.title = resp.arg.title
        /\ resp.body.priority = TheStored(resp.arg.id).priority
        /\ resp.body.is_owner

C5_Witness ==
    /\ resp.op = "create"
    /\ resp.error = "none"
    /\ "priority" \notin DOMAIN resp.arg
    /\ resp.identity.id = 2
    /\ resp.arg.id = 1
    /\ TheStored(1).priority = 3

\* The positions in db of the items an identity owns, in increasing order.
OwnedAt(user_id) == {i \in 1..Len(db) : db[i].value.user_id = user_id}

NthOwned(user_id, n) ==
    CHOOSE i \in OwnedAt(user_id) :
        Cardinality({j \in OwnedAt(user_id) : j < i}) = n - 1

Clamp(x, lo, hi) == IF x < lo THEN lo ELSE IF x > hi THEN hi ELSE x

\* C6: a search returns as total the number of items the identity owns and as
\* hits the representations of the owned items at positions [from_idx, to_idx)
\* of the enumeration.
C6_SearchWindow ==
    resp.op = "search" =>
        LET owner == resp.identity.id
            total == Cardinality(OwnedAt(owner))
            from_idx == (resp.arg.page - 1) * resp.arg.size
            to_idx == Clamp(from_idx + resp.arg.size, 0, total)
            count == IF to_idx > from_idx THEN to_idx - from_idx ELSE 0
            hits == resp.body.hits.hits
        IN /\ resp.error = "none"
           /\ resp.body.hits.total = total
           /\ Len(hits) = count
           /\ Len(hits) <= resp.arg.size
           /\ from_idx >= total => hits = <<>>
           /\ \A k \in 1..count :
                 LET item == db[NthOwned(owner, from_idx + k)].value
                 IN /\ item.user_id = owner
                    /\ hits[k].id = item.id
                    /\ hits[k].title = item.title
                    /\ hits[k].priority = item.priority
                    /\ hits[k].is_owner
                    /\ hits[k].links = [self |-> <<SITE_API_URL, "todos", item.id>>]

C6_Witness ==
    /\ resp.op = "search"
    /\ Len(db) = 2
    /\ db[1].value.user_id # resp.identity.id
    /\ resp.body.hits.total = 1
    /\ Len(resp.body.hits.hits) = 1
    /\ resp.body.hits.hits[1].id = db[2].key

\* C7: the links of a list have self always, prev exactly when page > 1 and
\* next exactly when to_idx < total, and self carries the requested page and
\* size.
C7_ListLinks ==
    (resp.op = "search" /\ resp.error = "none") =>
        LET total == resp.body.hits.total
            to_idx == Clamp(resp.arg.page * resp.arg.size, 0, total)
            links == resp.body.links
        IN /\ DOMAIN links \subseteq {"prev", "self", "next"}
           /\ "self" \in DOMAIN links
           /\ "prev" \in DOMAIN links <=> resp.arg.page > 1
           /\ "next" \in DOMAIN links <=> to_idx < total
           /\ links["self"] =
                 <<SITE_API_URL, "todos", resp.arg.page, resp.arg.size>>

C7_Witness ==
    /\ resp.op = "search"
    /\ resp.error = "none"
    /\ resp.arg.page = 2
    /\ resp.body.hits.hits # <<>>
    /\ "prev" \in DOMAIN resp.body.links
    /\ resp.body.links["prev"] # resp.body.links["self"]

\* A step changes the store only by a create that succeeds, and then only
\* the entry under data.id.
FrameStep ==
    IF resp'.op = "create" /\ resp'.error = "none"
    THEN \A id_ \in ItemIds \ {resp'.arg.id} :
            /\ HasKey(db', id_) <=> HasKey(db, id_)
            /\ HasKey(db, id_) =>
                  db'[KeyIndex(db', id_)].value = db[KeyIndex(db, id_)].value
    ELSE db' = db

StoreWellFormed ==
    \A i \in 1..Len(db) :
        /\ db[i].value.user_id # None
        /\ db[i].key = db[i].value.id
        /\ \A j \in 1..Len(db) : db[j].key = db[i].key => j = i

\* C10: only a create that succeeds changes the store, and only under
\* data.id; every stored item has an owner and is stored under its own id.
C10_Frame == [][FrameStep]_vars /\ []StoreWellFormed

C10_Witness ==
    /\ resp.op = "create"
    /\ resp.error = "ValidationError"
    /\ Len(db) = 2

\* C8 as stated: a search that a create of another caller interleaves with
\* still completes without failure, with the list of a store that existed
\* while it ran.
C8_SearchSafe ==
    scan.pc = "done" => (scan.error = "none" /\ scan.consistent)

\* C9 as stated: a read, or a search, that a user issues right after the
\* user's own successful create finds the item the create stored, whatever
\* the other callers did in between.
C9_ReadAfterWrite ==
    [][\A u \in UserIds :
          (lastCreate[u] # <<>> /\ resp'.identity.id = u) =>
             LET item == lastCreate[u][1]
             IN /\ (resp'.op = "read" /\ resp'.arg = item.id) =>
                      /\ resp'.error = "none"
                      /\ resp'.body.id = item.id
                      /\ resp'.body.title = item.title
                      /\ resp'.body.priority = item.priority
                      /\ resp'.body.is_owner
                /\ resp'.op = "search" =>
                      /\ resp'.error = "none"
                      /\ resp'.body.hits.total >= 1
                      /\ \E i \in 1..Len(db) : db[i].value = item]_vars
====
